---- MODULE Spec2Model ----
(***************************************************************************)
(* Model of the Vault client session (src/client.ts): credential login,    *)
(* lease bookkeeping, the self-rescheduling renewal timer, logout with     *)
(* optional revoke-self, and the request path (vault.ts / http.ts) that    *)
(* every operation goes through.                                           *)
(*                                                                         *)
(* The host's timers and the network are the environment: `timers` is the  *)
(* bag of pending setTimeout tasks created by createRenewTimer, `inflight` *)
(* the bag of background renewToken() calls whose fetch has not settled,   *)
(* and `fg` the one foreground call the caller is awaiting.                *)
(*                                                                         *)
(* Timer handles are opaque numbers the program only ever passes back to   *)
(* clearTimeout, so the model keeps of them what can be observed: whether  *)
(* renewTimerHandle holds one, and which pending timer it refers to (the   *)
(* timer's `current` flag).                                                *)
(***************************************************************************)
EXTENDS Integers, Sequences, FiniteSets, Bags, TLC

VARIABLES
    options,               \* VaultClient.options (fixed at construction)
    currentToken,          \* VaultClient.currentToken
    currentTokenAccessor,  \* VaultClient.currentTokenAccessor
    currentLeaseDuration,  \* VaultClient.currentLeaseDuration
    renewTimerHandle,      \* VaultClient.renewTimerHandle: 0 (undefined) or 1 (a handle)
    canRevoke,             \* VaultClient.canRevoke
    timers,                \* pending setTimeout tasks of createRenewTimer
    inflight,              \* background renewals awaiting their response
    fg,                    \* the foreground call awaiting its response
    step,                  \* what the last step did (observation only)
    hist                   \* history of the session (observation only)

vars == <<options, currentToken, currentTokenAccessor, currentLeaseDuration,
          renewTimerHandle, canRevoke, timers, inflight, fg, step, hist>>

session == <<currentToken, currentTokenAccessor, currentLeaseDuration,
             renewTimerHandle, canRevoke>>

(***************************************************************************)
(* Bounds of the model.                                                    *)
(***************************************************************************)
\* Largest number of renewal tasks (pending timers plus renewals in flight)
\* the model lets a session accumulate; login() is not called beyond it.
MaxTasks == 2

(***************************************************************************)
(* Values.                                                                 *)
(***************************************************************************)
Undefined == "undefined"

\* the token of a VaultTokenCredentials
ConfiguredToken == "root-token"
\* client_token values an AppRole login can return
ClientTokens == {"s.one"}
\* accessor values a response can carry ("" is the empty accessor)
Accessors == {"", "acc1", "acc2"}
\* lease_duration / ttl values (seconds) a response can carry
Leases == {0, 2, 3600}
TokenType == {"batch", "service"}
\* HTTP status codes the server answers with
Statuses == {200, 204, 403, 500}

AuthTypes == {"token", "approle", "userpass"}

\* types.ts: LoginResponse (its AuthData), the fields the client reads
LoginResponse ==
    [client_token: STRING, accessor: STRING, lease_duration: Int,
     renewable: BOOLEAN, token_type: TokenType]

\* types.ts: TokenLookupResponse (its data)
TokenLookupResponse ==
    [accessor: STRING, renewable: BOOLEAN, ttl: Int, type: TokenType]

\* the bodies satisfying LoginResponse / TokenLookupResponse a server
\* answers with, over the lease durations `leases`
LoginBodies(leases) ==
    [client_token: ClientTokens, accessor: Accessors, lease_duration: leases,
     renewable: BOOLEAN, token_type: TokenType]

LookupBodies(leases) ==
    [accessor: Accessors, renewable: BOOLEAN, ttl: leases, type: TokenType]

\* a body that is JSON but does not satisfy the contract
Invalid == [invalid |-> TRUE]
\* a body that is not JSON at all
Malformed == [malformed |-> TRUE]
NoBody == [none |-> TRUE]

\* What fetch() can settle with: a rejection (transport failure) or a
\* response with a status and a body.  A 200 carries one of `bodies`, JSON
\* outside the contract, or something that is not JSON; a 204 carries no
\* body; an error status carries a JSON error body or something that is not
\* JSON.
Replies(bodies) ==
    {[kind |-> "reject", status |-> 0, body |-> NoBody]}
    \cup [kind: {"response"}, status: {200}, body: bodies \cup {Invalid, Malformed}]
    \cup [kind: {"response"}, status: {204}, body: {NoBody}]
    \cup [kind: {"response"}, status: Statuses \ {200, 204}, body: {Invalid, Malformed}]

Min(a, b) == IF a < b THEN a ELSE b
Max(a, b) == IF a > b THEN a ELSE b

(***************************************************************************)
(* The contracts (validators) handed to doVaultFetch, by name;             *)
(* "undefined" is the absent validator of a call expecting no body.       *)
(***************************************************************************)
\* a caller-supplied contract (read / write / unwrap) and the one body it
\* accepts
SecretBody == [data |-> "secret"]
SecretResponse == {SecretBody}

\* unwrap: createGenericResponse(z.object({ creation_path: z.string() })),
\* its data
CreationPathResponse == [creation_path: STRING]
\* creation_path values a wrapping lookup can report
CreationPaths == {"auth/token/create", "auth/token/create/ops", "secret/foo"}

Contract(name) ==
    CASE name = "LoginResponse"       -> LoginResponse
      [] name = "TokenLookupResponse" -> TokenLookupResponse
      [] name = "SecretResponse"      -> SecretResponse
      [] name = "CreationPathResponse" -> CreationPathResponse
      [] OTHER                        -> {}

\* the bodies satisfying the named contract a server answers with
Bodies(name, leases) ==
    CASE name = "LoginResponse"       -> LoginBodies(leases)
      [] name = "TokenLookupResponse" -> LookupBodies(leases)
      [] name = "SecretResponse"      -> SecretResponse
      [] name = "CreationPathResponse" -> [creation_path: CreationPaths]
      [] OTHER                        -> {}

(***************************************************************************)
(* vault.ts: buildVaultRequest.  The request handed to fetch().            *)
(***************************************************************************)
\* buildVaultRequest putting the session token, when there is one, in the
\* token header of every request
buildVaultRequestSessionToken(vaultToken, endpoint, method, body) ==
    [path        |-> <<"/v1", endpoint>>,
     method      |-> method,
     token       |-> IF currentToken \notin {Undefined, ""} THEN currentToken
                     ELSE IF vaultToken \notin {Undefined, ""} THEN vaultToken
                     ELSE "",
     contentType |-> body /\ method /= "GET",
     body        |-> body /\ method /= "GET"]

buildVaultRequest(vaultToken, endpoint, method, body) ==
    [path        |-> <<"/v1", endpoint>>,
     method      |-> method,
     token       |-> IF vaultToken \notin {Undefined, ""} THEN vaultToken ELSE "",
     contentType |-> body /\ method /= "GET",
     body        |-> body /\ method /= "GET"]

(***************************************************************************)
(* http.ts: Response.ok, fetchJSONOnlyOk, fetchJSONZod, fetchNoBody.       *)
(* The result is what the awaited doVaultFetch promise settles with.       *)
(***************************************************************************)
ResponseOk(status) == status >= 200 /\ status <= 299

Settled(outcome, status, value) ==
    [outcome |-> outcome, status |-> status, value |-> value]

\* the service address of the options
VaultAddr == "http://127.0.0.1:8200"

\* buildVaultRequest: new URL(`/v1/${endpoint}`, vaultAddr)
RequestUrl(request) == [origin |-> VaultAddr, pathname |-> request.path]

\* the Response fetch() resolves with for `request`: the reply of the
\* server with the URL it was fetched from
Response(request, reply) ==
    [kind |-> reply.kind, status |-> reply.status, body |-> reply.body,
     url |-> RequestUrl(request)]

\* HTTPError.fromResponse: new URL(response.url).pathname (kept where the
\* response carries its URL)
HTTPErrorPath(reply) ==
    IF "url" \in DOMAIN reply THEN [path |-> reply.url.pathname] ELSE NoBody

\* HTTPError.fromResponse: response.json() throws on a body that is not JSON
fromResponse(reply) ==
    IF reply.body = Malformed
    THEN Settled("SyntaxError", 0, NoBody)
    ELSE Settled("HTTPError", reply.status, HTTPErrorPath(reply))

\* fetchJSONZod reporting a body outside the contract as an HTTPError
fetchJSONZodMasked(validator, reply) ==
    IF ~ResponseOk(reply.status) THEN fromResponse(reply)
    ELSE IF reply.body \in {Malformed, NoBody} THEN Settled("SyntaxError", 0, NoBody)
    ELSE IF reply.body \in validator THEN Settled("ok", reply.status, reply.body)
    ELSE Settled("HTTPError", reply.status, HTTPErrorPath(reply))

fetchJSONZod(validator, reply) ==
    IF ~ResponseOk(reply.status) THEN fromResponse(reply)
    ELSE IF reply.body \in {Malformed, NoBody} THEN Settled("SyntaxError", 0, NoBody)
    ELSE IF reply.body \in validator THEN Settled("ok", reply.status, reply.body)
    ELSE Settled("ValidationError", 0, NoBody)

fetchNoBody(reply) ==
    IF reply.status /= 204 THEN fromResponse(reply)
    ELSE Settled("ok", reply.status, NoBody)

\* vault.ts: doVaultFetch from the settling of the request it sent
doVaultFetch(validator, reply) ==
    IF reply.kind = "reject" THEN Settled("FetchRejected", 0, NoBody)
    ELSE IF validator = "undefined" THEN fetchNoBody(reply)
    ELSE fetchJSONZod(Contract(validator), reply)

(***************************************************************************)
(* The cancellation signal of a call (opts.signal): left out, or an        *)
(* AbortSignal that is already aborted when the call is made.  client.ts   *)
(* hands it to doVaultFetch as its last argument; fetch() given an aborted *)
(* signal rejects with the abort reason and sends nothing.                 *)
(***************************************************************************)
Signals == {Undefined, "aborted"}

signalAborted(signal) == signal = "aborted"

(***************************************************************************)
(* client.ts: the token check of tokenInfo (also written out in lookup).   *)
(***************************************************************************)
\* tokenInfo without the check of lines 47-49
tokenInfoUnchecked == "ok"

tokenInfo == IF currentToken = Undefined THEN "Unauthenticated" ELSE "ok"

(***************************************************************************)
(* client.ts: renewInterval, in milliseconds.  The product is formed only  *)
(* below the cap: seconds * 1000 exceeds 2147483647 exactly from 2147484   *)
(* seconds on.                                                             *)
(***************************************************************************)
MaxTimerDelay == 2147483647

\* renewInterval with Math.floor in place of Math.ceil
renewIntervalFloor(leaseDuration) ==
    LET buffer  == leaseDuration \div 5
        seconds == Max(leaseDuration - buffer, 1)
    IN  IF seconds > MaxTimerDelay \div 1000 THEN MaxTimerDelay
        ELSE Min(seconds * 1000, MaxTimerDelay)

\* renewInterval without the buffer
renewIntervalNoBuffer(leaseDuration) ==
    LET seconds == Max(leaseDuration, 1)
    IN  IF seconds > MaxTimerDelay \div 1000 THEN MaxTimerDelay
        ELSE Min(seconds * 1000, MaxTimerDelay)

renewInterval(leaseDuration) ==
    LET buffer  == (leaseDuration + 4) \div 5
        seconds == Max(leaseDuration - buffer, 1)
    IN  IF seconds > MaxTimerDelay \div 1000 THEN MaxTimerDelay
        ELSE Min(seconds * 1000, MaxTimerDelay)

(***************************************************************************)
(* Observation records.                                                    *)
(***************************************************************************)
NotArmed == {}

\* cycle: the lease duration the settled renewal's timer was armed with, as
\* a set.
\* kind: "call" (a foreground call up to its await), "settle" (the rest of
\* it), "fire" (a timer callback up to its await), "renewed" (the rest of it);
\* sent: the requests the step handed to fetch(); armed: the lease duration
\* the step armed a timer with, as a set (NotArmed when it armed none);
\* signal: the opts.signal of a call; afterStop: whether the login() that
\* settled had been called after a renewal failed with 403.
Step(kind, op, outcome, status, sent, resp, armed) ==
    [kind |-> kind, op |-> op, outcome |-> outcome, status |-> status,
     sent |-> sent, resp |-> resp, armed |-> armed, cycle |-> NotArmed,
     signal |-> "undefined", afterStop |-> FALSE]

\* a call made with opts.signal = signal, up to its await
Called(op, outcome, sent, signal) ==
    [Step("call", op, outcome, 0, sent, NoBody, NotArmed) EXCEPT !.signal = signal]

\* the settling of a renewal whose timer had been armed with `cycle`
Renewed(cycle, outcome, status, resp, armed) ==
    [Step("renewed", "renewTimer", outcome, status, <<>>, resp, armed)
        EXCEPT !.cycle = cycle]

Pending(op, contract, hardFail) ==
    [op |-> op, contract |-> contract, hardFail |-> hardFail]

Idle == Pending("idle", "undefined", FALSE)

\* a login() awaiting its response; token: currentToken when login() was
\* called, stopped: whether a renewal had failed with 403 by then
\* (observation only)
LoginPending(contract, token) ==
    [op |-> "login", contract |-> contract, hardFail |-> FALSE, token |-> token,
     stopped |-> hist.fatal]

Tasks == BagCardinality(timers) + BagCardinality(inflight)

\* a pending timer: the lease duration it was armed with, its delay, and
\* whether renewTimerHandle is its handle
Timer(leaseDuration, delay, current) ==
    [lease |-> leaseDuration, delay |-> delay, current |-> current]

\* the pending timers once renewTimerHandle is overwritten with a new handle
Older(pending) ==
    LET olderCopies(t) ==
            CopiesIn(Timer(t.lease, t.delay, FALSE), pending)
            + CopiesIn(Timer(t.lease, t.delay, TRUE), pending)
        S == {Timer(t.lease, t.delay, FALSE) : t \in BagToSet(pending)}
    IN  [t \in S |-> olderCopies(t)]

(***************************************************************************)
(* client.ts: createRenewTimer.  `pending` is the bag of pending timers at *)
(* the moment of the call; the result is the pending timers afterwards,    *)
(* the new one being the timer of renewTimerHandle.                        *)
(***************************************************************************)
createRenewTimer(pending, leaseDuration) ==
    Older(pending) (+) SetToBag({Timer(leaseDuration, renewInterval(leaseDuration), TRUE)})

\* The configurations a client is constructed with: every credential kind,
\* with and without logoutRevoke, and enableRenewalTimer false, true or left
\* out.
Options ==
    {o \in [authType: AuthTypes, logoutRevoke: BOOLEAN,
            enableRenewalTimer: {"true", "false", "undefined"}] :
        \/ o.enableRenewalTimer = "false"
        \/ o.enableRenewalTimer = "true" /\ o.logoutRevoke
        \/ o.enableRenewalTimer = "undefined" /\ ~o.logoutRevoke}

TypeOK ==
    /\ options \in Options
    /\ currentToken \in {Undefined, ConfiguredToken} \cup ClientTokens
    /\ currentTokenAccessor \in {Undefined} \cup Accessors
    /\ currentLeaseDuration \in Nat
    /\ renewTimerHandle \in {0, 1}
    /\ canRevoke \in BOOLEAN
    /\ IsABag(timers) /\ IsABag(inflight)
    /\ \A t \in BagToSet(timers) : t.lease \in Nat /\ t.current \in BOOLEAN
    /\ \A i \in BagToSet(inflight) : i.lease \in Nat
    /\ \A t, u \in BagToSet(timers) : t.current /\ u.current => t = u
    /\ \A t \in BagToSet(timers) : t.current => CopiesIn(t, timers) = 1
    /\ BagCardinality(timers) + BagCardinality(inflight) <= MaxTasks

Init ==
    /\ options \in Options
    /\ currentToken = Undefined
    /\ currentTokenAccessor = Undefined
    /\ currentLeaseDuration = 0
    /\ renewTimerHandle = 0
    /\ canRevoke = TRUE
    /\ timers = EmptyBag
    /\ inflight = EmptyBag
    /\ fg = Idle
    /\ step = Step("init", "none", "ok", 0, <<>>, NoBody, NotArmed)
    /\ hist = [loginCalled |-> FALSE, loggedIn |-> FALSE, tokenType |-> "none",
               loggedOut |-> "no", fatal |-> FALSE]

(***************************************************************************)
(* client.ts: login, up to its await (approleLogin or lookup).             *)
(***************************************************************************)
\* line 91 without the test of the lease duration
loginArmsAnyLease(isRenewable, leaseDuration) ==
    isRenewable /\ options.enableRenewalTimer /= "false"

\* line 91: the condition under which login() arms the renewal timer
loginArms(isRenewable, leaseDuration) ==
    isRenewable /\ leaseDuration > 0 /\ options.enableRenewalTimer /= "false"

\* the switch of lines 63-89 without its default branch: any other kind is
\* treated as a token
loginStrategyNoDefault(authType) ==
    IF authType = "approle" THEN "approle" ELSE "token"

\* lines 63-89: the branch login() takes for a credential kind
loginStrategy(authType) ==
    IF authType \in {"approle", "token"} THEN authType ELSE "unsupported"

LoginCallWith(signal) ==
    /\ fg = Idle
    /\ Tasks < MaxTasks
    /\ currentLeaseDuration' = 0
    /\ hist' = [hist EXCEPT !.loginCalled = TRUE, !.loggedOut = "no",
                            !.fatal = FALSE]
    /\ CASE loginStrategy(options.authType) = "approle" ->
              /\ IF signalAborted(signal)
                 THEN /\ fg' = Idle
                      /\ step' = Called("login", "AbortError", <<>>, signal)
                 ELSE /\ fg' = LoginPending("LoginResponse", currentToken)
                      /\ step' = Called("login", "pending",
                             <<buildVaultRequest(Undefined, "auth/approle/login", "POST", TRUE)>>,
                             signal)
              /\ UNCHANGED currentToken
         [] loginStrategy(options.authType) = "token" ->
              /\ currentToken' = ConfiguredToken
              /\ IF signalAborted(signal)
                 THEN /\ fg' = Idle
                      /\ step' = Called("login", "AbortError", <<>>, signal)
                 ELSE /\ fg' = LoginPending("TokenLookupResponse", currentToken)
                      /\ step' = Called("login", "pending",
                             <<buildVaultRequest(ConfiguredToken, "auth/token/lookup-self", "GET", FALSE)>>,
                             signal)
         [] OTHER ->
              /\ fg' = Idle
              /\ step' = Called("login", "UnsupportedAuthType", <<>>, signal)
              /\ UNCHANGED currentToken
    /\ UNCHANGED <<options, currentTokenAccessor, renewTimerHandle, canRevoke,
                   timers, inflight>>

\* login() called without a signal
LoginCall == LoginCallWith(Undefined)

\* login(opts) with or without a signal
LoginCancellable == \E signal \in Signals : LoginCallWith(signal)

(***************************************************************************)
(* client.ts: login, from the settling of its await to its end.            *)
(***************************************************************************)
\* lines 68 / 80 with every token taken as revocable
revocableAlways(type) == TRUE

\* lines 68 / 80: this.canRevoke = type === "service"
revocable(type) == type = "service"

\* login() leaving the session token as it is in either branch
loginTokenUnchanged(approle, v) == currentToken

\* lines 66 / 76: the session token after a successful login(); in the
\* token branch it was assigned before the lookup
loginToken(approle, v) ==
    IF approle THEN v.client_token ELSE currentToken

LoginSettleFrom(bodies) ==
    /\ fg.op = "login"
    /\ \E reply \in Replies(bodies) :
         LET res == doVaultFetch(fg.contract, reply)
             v   == res.value
             approle == options.authType = "approle"
             accessor == v.accessor
             lease == IF approle THEN v.lease_duration ELSE v.ttl
             type  == IF approle THEN v.token_type ELSE v.type
             isRenewable == v.renewable /\ accessor /= ""
         IN  IF res.outcome = "ok"
             THEN /\ currentToken' = loginToken(approle, v)
                  /\ currentTokenAccessor' = accessor
                  /\ canRevoke' = revocable(type)
                  /\ currentLeaseDuration' = lease
                  /\ IF loginArms(isRenewable, lease)
                     THEN /\ timers' = createRenewTimer(timers, lease)
                          /\ renewTimerHandle' = 1
                          /\ step' = [Step("settle", "login", "ok", res.status,
                                           <<>>, v, {lease})
                                         EXCEPT !.afterStop = fg.stopped]
                     ELSE /\ UNCHANGED <<timers, renewTimerHandle>>
                          /\ step' = [Step("settle", "login", "ok", res.status,
                                           <<>>, v, NotArmed)
                                         EXCEPT !.afterStop = fg.stopped]
                  /\ hist' = [hist EXCEPT !.loggedIn = TRUE, !.tokenType = type,
                                          !.loggedOut = "no", !.fatal = FALSE]
             ELSE /\ step' = Step("settle", "login", res.outcome, res.status,
                                  <<>>, NoBody, NotArmed)
                  /\ hist' = [hist EXCEPT !.loggedOut = "no", !.fatal = FALSE]
                  /\ UNCHANGED <<session, timers>>
    /\ fg' = Idle
    /\ UNCHANGED <<options, inflight>>

LoginSettle == LoginSettleFrom(Bodies(fg.contract, Leases))

(***************************************************************************)
(* client.ts: the request operations, up to their await.  `check` is the   *)
(* result of the operation's check before the request, `signal` its        *)
(* opts.signal, `request` what it hands to doVaultFetch.                   *)
(***************************************************************************)
Call(op, check, signal, contract, request) ==
    /\ fg = Idle
    /\ IF check /= "ok"
       THEN /\ fg' = Idle
            /\ step' = Called(op, check, <<>>, signal)
       ELSE IF signalAborted(signal)
       THEN /\ fg' = Idle
            /\ step' = Called(op, "AbortError", <<>>, signal)
       ELSE /\ fg' = Pending(op, contract, FALSE)
            /\ step' = Called(op, "pending", <<request>>, signal)
    /\ UNCHANGED <<options, session, timers, inflight, hist>>

\* the accessor / role arguments a caller passes
AccessorArgs == {Undefined, "acc1"}
RoleArgs == {Undefined, "ops"}
Endpoints == {"secret/foo"}
ReadMethods == {Undefined, "LIST"}
WriteMethods == {Undefined, "DELETE"}
OrElse(method, default) == IF method = Undefined THEN default ELSE method

\* approleLogin without the test of lines 123-125
approleLoginUnchecked(authType) == "ok"

\* lines 122-125: approleLogin throws for every other credential kind
approleLoginCheck(authType) ==
    IF authType /= "approle" THEN "WrongAuthType" ELSE "ok"

\* approleLogin called by itself: the exchange without the bookkeeping of
\* login()
ApproleLogin ==
    \E signal \in Signals :
        Call("approleLogin", approleLoginCheck(options.authType),
             signal, "LoginResponse",
             buildVaultRequest(Undefined, "auth/approle/login", "POST", TRUE))

Lookup ==
    \E accessor \in AccessorArgs, signal \in Signals :
        Call("lookup",
             IF currentToken = Undefined THEN "Unauthenticated" ELSE "ok",
             signal, "TokenLookupResponse",
             IF accessor /= Undefined
             THEN buildVaultRequest(currentToken, "auth/token/lookup-accessor", "POST", TRUE)
             ELSE buildVaultRequest(currentToken, "auth/token/lookup-self", "GET", FALSE))

RenewToken ==
    \E accessor \in AccessorArgs, signal \in Signals :
        Call("renewToken", tokenInfo, signal, "LoginResponse",
             IF accessor /= Undefined
             THEN buildVaultRequest(currentToken, "auth/token/renew-accessor", "POST", TRUE)
             ELSE buildVaultRequest(currentToken, "auth/token/renew-self", "POST", FALSE))

IssueToken ==
    \E role \in RoleArgs, signal \in Signals :
        Call("issueToken", tokenInfo, signal, "LoginResponse",
             IF role /= Undefined
             THEN buildVaultRequest(currentToken, "auth/token/create/ops", "POST", FALSE)
             ELSE buildVaultRequest(currentToken, "auth/token/create", "POST", FALSE))

Read ==
    \E endpoint \in Endpoints, method \in ReadMethods, signal \in Signals :
        Call("read", tokenInfo, signal, "SecretResponse",
             buildVaultRequest(currentToken, endpoint, OrElse(method, "GET"), FALSE))

Write ==
    \E endpoint \in Endpoints, method \in WriteMethods, body \in BOOLEAN,
       type \in {"undefined", "SecretResponse"}, signal \in Signals :
        Call("write", tokenInfo, signal, type,
             buildVaultRequest(currentToken, endpoint, OrElse(method, "POST"), body))

\* One body satisfying the named contract: these operations hand the parsed
\* body to the caller and keep nothing of it.
Sample(name) ==
    IF Bodies(name, Leases) = {} THEN {}
    ELSE {CHOOSE b \in Bodies(name, Leases) : TRUE}

\* issueToken keeping the token it issued as the session token
tokenAfterIssued(op, res) ==
    IF op = "issueToken" /\ res.outcome = "ok"
    THEN res.value.client_token ELSE currentToken

\* lines 136-142, 168, 189-192, 216-220, 234, 263: the operations return
\* the parsed response to the caller and assign no field; the session token
\* after `op` settled with `res`
tokenAfter(op, res) == currentToken

\* the awaited doVaultFetch of approleLogin / lookup / renewToken /
\* issueToken / read / write
Settle ==
    /\ fg.op \in {"approleLogin", "lookup", "renewToken", "issueToken", "read",
                  "write"}
    /\ \E reply \in Replies(Sample(fg.contract)) :
         LET res == doVaultFetch(fg.contract, reply)
         IN  /\ step' = Step("settle", fg.op, res.outcome, res.status, <<>>,
                             NoBody, NotArmed)
             /\ currentToken' = tokenAfter(fg.op, res)
    /\ fg' = Idle
    /\ UNCHANGED <<options, currentTokenAccessor, currentLeaseDuration,
                   renewTimerHandle, canRevoke, timers, inflight, hist>>

(***************************************************************************)
(* client.ts: unwrap.  It makes no token check: its requests carry the     *)
(* wrapping token.                                                         *)
(***************************************************************************)
WrappingTokens == {"w.tok"}
\* the expectedCreationPath argument: left out, empty, or a path
ExpectedPaths == {Undefined, "", "auth/token/create"}

\* line 292 with the lookup made whatever expectedCreationPath is
unwrapLooksUpAlways(expectedCreationPath) == TRUE

\* line 292: if (expectedCreationPath)
unwrapLooksUp(expectedCreationPath) ==
    expectedCreationPath \notin {Undefined, ""}

\* the paths of the model of which `prefix` is a prefix
StartsWith(path, prefix) ==
    \/ path = prefix
    \/ prefix = ""
    \/ prefix = "auth/token/create" /\ path = "auth/token/create/ops"

\* line 308 with startsWith in place of the comparison
creationPathMatchesPrefix(expectedCreationPath, creation_path) ==
    StartsWith(creation_path, expectedCreationPath)

\* line 308: expectedCreationPath !== creationData.creation_path
creationPathMatches(expectedCreationPath, creation_path) ==
    expectedCreationPath = creation_path

\* an unwrap() awaiting a response; requests: the endpoints this call has
\* handed to fetch() so far (observation only)
UnwrapPending(op, contract, wrappingToken, expected, requests) ==
    [op |-> op, contract |-> contract, hardFail |-> FALSE,
     wrappingToken |-> wrappingToken, expected |-> expected,
     requests |-> requests]

\* unwrap up to its first await
UnwrapCall ==
    /\ fg = Idle
    /\ \E wrappingToken \in WrappingTokens, expected \in ExpectedPaths,
          signal \in Signals :
         LET first == IF unwrapLooksUp(expected) THEN "sys/wrapping/lookup"
                      ELSE "sys/wrapping/unwrap"
         IN  IF signalAborted(signal)
             THEN /\ fg' = Idle
                  /\ step' = Called("unwrap", "AbortError", <<>>, signal)
             ELSE /\ fg' = UnwrapPending(
                            IF unwrapLooksUp(expected) THEN "unwrapLookup" ELSE "unwrap",
                            "SecretResponse", wrappingToken, expected, <<first>>)
                  /\ step' = Called("unwrap", "pending",
                         <<buildVaultRequest(wrappingToken, first, "POST",
                                             unwrapLooksUp(expected))>>,
                         signal)
    /\ UNCHANGED <<options, session, timers, inflight, hist>>

\* unwrap from the settling of sys/wrapping/lookup to its next await
UnwrapLookupSettle ==
    /\ fg.op = "unwrapLookup"
    /\ \E reply \in Replies(Bodies("CreationPathResponse", Leases)) :
         LET res == doVaultFetch("CreationPathResponse", reply)
         IN  IF res.outcome /= "ok"
             THEN /\ fg' = Idle
                  /\ step' = Step("settle", "unwrap", res.outcome, res.status,
                                  <<>>, NoBody, NotArmed)
             ELSE IF ~creationPathMatches(fg.expected, res.value.creation_path)
             THEN /\ fg' = Idle
                  /\ step' = Step("settle", "unwrap", "CreationPathMismatch",
                                  res.status, <<>>, res.value, NotArmed)
             ELSE /\ fg' = [fg EXCEPT !.op = "unwrap",
                                !.requests = Append(@, "sys/wrapping/unwrap")]
                  /\ step' = Step("settle", "unwrap", "pending", res.status,
                         <<buildVaultRequest(fg.wrappingToken, "sys/wrapping/unwrap",
                                             "POST", FALSE)>>,
                         res.value, NotArmed)
    /\ UNCHANGED <<options, session, timers, inflight, hist>>

\* unwrap from the settling of sys/wrapping/unwrap
UnwrapSettle ==
    /\ fg.op = "unwrap"
    /\ \E reply \in Replies(Sample(fg.contract)) :
         LET res == doVaultFetch(fg.contract, reply)
         IN  step' = Step("settle", "unwrap", res.outcome, res.status, <<>>,
                          res.value, NotArmed)
    /\ fg' = Idle
    /\ UNCHANGED <<options, session, timers, inflight, hist>>

(***************************************************************************)
(* client.ts: logout.                                                      *)
(***************************************************************************)
\* line 103 without the test of canRevoke
logoutRevokesAlways == options.logoutRevoke

\* line 103: the condition under which logout() revokes the token
logoutRevokes == options.logoutRevoke /\ canRevoke

\* lines 99-101: clearTimeout(this.renewTimerHandle)
clearRenewTimer(pending) ==
    IF renewTimerHandle /= 0
    THEN LET S == {t \in BagToSet(pending) : ~t.current}
         IN  [t \in S |-> CopiesIn(t, pending)]
    ELSE pending

\* logout(opts) as called by `caller`
LogoutCallWith(caller, revokeHardFail) ==
    /\ fg = Idle
    /\ timers' = clearRenewTimer(timers)
    /\ hist' = [hist EXCEPT !.loggedIn = FALSE,
                   !.loggedOut = IF inflight = EmptyBag THEN "quiet" ELSE "midflight"]
    /\ IF logoutRevokes
       THEN IF tokenInfo /= "ok"
            THEN \* write() rejects before any request; the catch decides
                 /\ fg' = Idle
                 /\ step' = Step("call", caller,
                        IF revokeHardFail THEN tokenInfo ELSE "ok",
                        0, <<>>, NoBody, NotArmed)
            ELSE /\ fg' = Pending(caller, "undefined", revokeHardFail)
                 /\ step' = Step("call", caller, "pending", 0,
                        <<buildVaultRequest(currentToken, "auth/token/revoke-self",
                                            "POST", FALSE)>>,
                        NoBody, NotArmed)
       ELSE /\ fg' = Idle
            /\ step' = Step("call", caller, "ok", 0, <<>>, NoBody, NotArmed)
    /\ UNCHANGED <<options, session, inflight>>

LogoutCall == \E revokeHardFail \in BOOLEAN : LogoutCallWith("logout", revokeHardFail)

\* [Symbol.asyncDispose] handing logout() the option revokeHardFail
disposeHardFails == TRUE

\* line 365: this.logout() is called without options
disposeRevokeHardFail == FALSE

\* lines 364-366: [Symbol.asyncDispose]
AsyncDispose == LogoutCallWith("asyncDispose", disposeRevokeHardFail)

LogoutSettle ==
    /\ fg.op \in {"logout", "asyncDispose"}
    /\ \E reply \in Replies({}) :
         LET res == doVaultFetch("undefined", reply)
         IN  step' = Step("settle", fg.op,
                          IF res.outcome /= "ok" /\ fg.hardFail THEN res.outcome ELSE "ok",
                          res.status, <<>>, NoBody, NotArmed)
    /\ fg' = Idle
    /\ UNCHANGED <<options, session, timers, inflight, hist>>

(***************************************************************************)
(* client.ts: the timer callback of createRenewTimer: renewTimer() up to   *)
(* the await of renewToken()'s request.                                    *)
(***************************************************************************)
TimerFire ==
    \E t \in BagToSet(timers) :
        LET rest == timers (-) SetToBag({t})
        IN  IF tokenInfo = "ok"
            THEN /\ timers' = rest
                 /\ inflight' = inflight (+) SetToBag({[lease |-> t.lease]})
                 /\ step' = Step("fire", "renewTimer", "pending", 0,
                        <<buildVaultRequest(currentToken, "auth/token/renew-self", "POST", FALSE)>>,
                        NoBody, NotArmed)
                 /\ UNCHANGED <<options, session, fg, hist>>
            ELSE \* renewToken() throws, renewTimer() catches, the timer is re-armed
                 /\ timers' = createRenewTimer(rest, currentLeaseDuration)
                 /\ renewTimerHandle' = 1
                 /\ step' = Step("fire", "renewTimer", tokenInfo, 0, <<>>, NoBody,
                                 {currentLeaseDuration})
                 /\ UNCHANGED <<options, currentToken, currentTokenAccessor,
                                currentLeaseDuration, canRevoke, inflight, fg, hist>>

(***************************************************************************)
(* client.ts: renewTimer from the settling of renewToken().  The result    *)
(* says whether the promise resolves (the .then re-arms) or rejects, the   *)
(* token and the accessor the session holds afterwards and the lease       *)
(* duration handed to createRenewTimer.                                    *)
(***************************************************************************)
\* renewTimer returning the stored lease duration and keeping the stored
\* accessor also when the renewal succeeded
renewTimerKeepsLease(res) ==
    IF res.outcome = "HTTPError" /\ res.status = 403
    THEN [resolved |-> FALSE, token |-> currentToken,
          accessor |-> currentTokenAccessor, lease_duration |-> 0]
    ELSE [resolved |-> TRUE, token |-> currentToken,
          accessor |-> currentTokenAccessor,
          lease_duration |-> currentLeaseDuration]

\* renewTimer storing the client_token of the renewal response as well
renewTimerTakesToken(res) ==
    IF res.outcome = "ok"
    THEN [resolved |-> TRUE, token |-> res.value.client_token,
          accessor |-> res.value.accessor,
          lease_duration |-> res.value.lease_duration]
    ELSE IF res.outcome = "HTTPError" /\ res.status = 403
    THEN [resolved |-> FALSE, token |-> currentToken,
          accessor |-> currentTokenAccessor, lease_duration |-> 0]
    ELSE [resolved |-> TRUE, token |-> currentToken,
          accessor |-> currentTokenAccessor,
          lease_duration |-> currentLeaseDuration]

\* renewTimer dropping the accessor when it rethrows
renewTimerForgetsOn403(res) ==
    IF res.outcome = "ok"
    THEN [resolved |-> TRUE, token |-> currentToken,
          accessor |-> res.value.accessor,
          lease_duration |-> res.value.lease_duration]
    ELSE IF res.outcome = "HTTPError" /\ res.status = 403
    THEN [resolved |-> FALSE, token |-> currentToken,
          accessor |-> Undefined, lease_duration |-> 0]
    ELSE [resolved |-> TRUE, token |-> currentToken,
          accessor |-> currentTokenAccessor,
          lease_duration |-> currentLeaseDuration]

\* renewTimer rethrowing every HTTPError, whatever its status
renewTimerStopsOnHTTPError(res) ==
    IF res.outcome = "ok"
    THEN [resolved |-> TRUE, token |-> currentToken,
          accessor |-> res.value.accessor,
          lease_duration |-> res.value.lease_duration]
    ELSE IF res.outcome = "HTTPError"
    THEN [resolved |-> FALSE, token |-> currentToken,
          accessor |-> currentTokenAccessor, lease_duration |-> 0]
    ELSE [resolved |-> TRUE, token |-> currentToken,
          accessor |-> currentTokenAccessor,
          lease_duration |-> currentLeaseDuration]

\* renewTimer without its catch: every failure of renewToken() rejects
renewTimerThrowsOnFailure(res) ==
    IF res.outcome = "ok"
    THEN [resolved |-> TRUE, token |-> currentToken,
          accessor |-> res.value.accessor,
          lease_duration |-> res.value.lease_duration]
    ELSE [resolved |-> FALSE, token |-> currentToken,
          accessor |-> currentTokenAccessor, lease_duration |-> 0]

renewTimer(res) ==
    IF res.outcome = "ok"
    THEN [resolved |-> TRUE, token |-> currentToken,
          accessor |-> res.value.accessor,
          lease_duration |-> res.value.lease_duration]
    ELSE IF res.outcome = "HTTPError" /\ res.status = 403
    THEN [resolved |-> FALSE, token |-> currentToken,
          accessor |-> currentTokenAccessor, lease_duration |-> 0]
    ELSE [resolved |-> TRUE, token |-> currentToken,
          accessor |-> currentTokenAccessor,
          lease_duration |-> currentLeaseDuration]

\* renewTimer reads accessor and lease_duration of the response only
RenewalBodies ==
    {b \in LoginBodies(Leases) : b.renewable /\ b.token_type = "service"}

RenewSettle ==
    \E i \in BagToSet(inflight), reply \in Replies(RenewalBodies) :
        LET res == doVaultFetch("LoginResponse", reply)
            r   == renewTimer(res)
        IN  /\ inflight' = inflight (-) SetToBag({i})
            /\ currentToken' = r.token
            /\ currentTokenAccessor' = r.accessor
            /\ hist' = [hist EXCEPT !.fatal =
                            @ \/ (res.outcome = "HTTPError" /\ res.status = 403)]
            /\ IF r.resolved
               THEN /\ timers' = createRenewTimer(timers, r.lease_duration)
                    /\ renewTimerHandle' = 1
                    /\ step' = Renewed({i.lease}, res.outcome, res.status, res.value,
                                       {r.lease_duration})
               ELSE /\ UNCHANGED <<timers, renewTimerHandle>>
                    /\ step' = Renewed({i.lease}, res.outcome, res.status, res.value,
                                       NotArmed)
            /\ UNCHANGED <<options, currentLeaseDuration, canRevoke, fg>>

(***************************************************************************)
(* The session with its renewal scheduler: login, logout and the timer.    *)
(***************************************************************************)
Next ==
    \/ LoginCall
    \/ LoginSettle
    \/ LogoutCall
    \/ LogoutSettle
    \/ TimerFire
    \/ RenewSettle

Spec == Init /\ [][Next]_vars

(***************************************************************************)
(* vault.ts: doVaultFetch by itself, over its arguments and the replies of *)
(* the server.                                                             *)
(***************************************************************************)
FetchEndpoints == {"secret/foo", "non/existent/path"}
FetchValidators == {"undefined", "SecretResponse", "TokenLookupResponse"}

\* the body argument of doVaultFetch (body?: unknown): left out, the empty
\* string (as falsy as 0, false and null), or a value that is truthy (an
\* object)
FetchBodies == {Undefined, "", "payload"}

\* part_002 lines 25 and 32: `body && ...`
Truthy(body) == body \notin {Undefined, ""}

\* doVaultFetch up to the await of buildVaultRequest
FetchCall ==
    /\ fg = Idle
    /\ \E validator \in FetchValidators, vaultToken \in {Undefined, ConfiguredToken},
          endpoint \in FetchEndpoints, method \in {"GET", "POST"},
          body \in FetchBodies :
         LET request == buildVaultRequest(vaultToken, endpoint, method, Truthy(body))
         IN  /\ fg' = [op |-> "doVaultFetch", contract |-> validator,
                       hardFail |-> FALSE, endpoint |-> endpoint,
                       request |-> request, body |-> body]
             /\ step' = Step("call", "doVaultFetch", "pending", 0, <<request>>,
                             NoBody, NotArmed)
    /\ UNCHANGED <<options, session, timers, inflight, hist>>

\* doVaultFetch from the settling of fetch()
FetchSettle ==
    /\ fg.op = "doVaultFetch"
    /\ \E reply \in Replies(Sample(fg.contract)) :
         LET response == Response(fg.request, reply)
             res == doVaultFetch(fg.contract, response)
         IN  step' = Step("settle", "doVaultFetch", res.outcome, res.status, <<>>,
                          [response |-> response, value |-> res.value], NotArmed)
    /\ fg' = Idle
    /\ UNCHANGED <<options, session, timers, inflight, hist>>

NextFetch ==
    \/ FetchCall
    \/ FetchSettle

SpecFetch == Init /\ [][NextFetch]_vars

(***************************************************************************)
(* The request operations of a session, over the behaviours in which no    *)
(* renewal timer comes due.                                                *)
(***************************************************************************)
NextRequests ==
    \/ LoginCancellable
    \/ LoginSettle
    \/ LogoutCall
    \/ LogoutSettle
    \/ ApproleLogin
    \/ Lookup
    \/ RenewToken
    \/ IssueToken
    \/ Read
    \/ Write
    \/ Settle
    \/ UnwrapCall
    \/ UnwrapLookupSettle
    \/ UnwrapSettle

SpecRequests == Init /\ [][NextRequests]_vars

(***************************************************************************)
(* Arming the scheduler over a range of lease durations: logins answered   *)
(* with a renewable service token and a lease duration of ProbeLeases.     *)
(***************************************************************************)
\* the lease durations 0..MaxLease are all tried
MaxLease == 12

ProbeLeases == (0..MaxLease) \cup {3600, 2684354, 2684355, 3000000}

ProbeBodies ==
    {b \in Bodies(fg.contract, ProbeLeases) :
        b.renewable /\ b.accessor = "acc1"}

LoginSettleProbe == LoginSettleFrom(ProbeBodies)

InitInterval ==
    /\ Init
    /\ options.enableRenewalTimer = "undefined"
    /\ options.authType \in {"token", "approle"}

NextInterval ==
    \/ LoginCall
    \/ LoginSettleProbe
    \/ LogoutCall

SpecInterval == InitInterval /\ [][NextInterval]_vars

\* the token type of a login / self-lookup response
RespType(resp) ==
    IF "type" \in DOMAIN resp THEN resp.type ELSE resp.token_type

(***************************************************************************)
(* The scheduler by itself, in an AppRole client: logins answered with a   *)
(* renewable service token, the timer and its renewals, and logout.  A     *)
(* pending timer fires in the end (setTimeout, lines 353-359) and a        *)
(* renewal request in flight settles in the end (the awaited               *)
(* renewToken(), line 336).                                                *)
(***************************************************************************)
SchedulerBodies ==
    {b \in Bodies(fg.contract, Leases) :
        b.renewable /\ b.accessor = "acc1" /\ RespType(b) = "service"}

InitScheduler == InitInterval /\ options.authType = "approle"

LoginSettleScheduler == LoginSettleFrom(SchedulerBodies)

NextScheduler ==
    \/ LoginCall
    \/ LoginSettleScheduler
    \/ LogoutCall
    \/ TimerFire
    \/ RenewSettle

SpecScheduler ==
    /\ InitScheduler
    /\ [][NextScheduler]_vars
    /\ WF_vars(TimerFire)
    /\ WF_vars(RenewSettle)

(***************************************************************************)
(* The ends of a session: logins, logout() and the disposal of the client. *)
(***************************************************************************)
NextDispose ==
    \/ LoginCall
    \/ LoginSettle
    \/ LogoutCall
    \/ AsyncDispose
    \/ LogoutSettle

SpecDispose == Init /\ [][NextDispose]_vars

(***************************************************************************)
(* The renewals of a session: logins answered with a renewable service     *)
(* token, the timer and its renewals, renewToken() called by the program,  *)
(* and logout.                                                             *)
(***************************************************************************)
NextRenewals ==
    \/ LoginCall
    \/ LoginSettleScheduler
    \/ LogoutCall
    \/ TimerFire
    \/ RenewSettle
    \/ RenewToken
    \/ Settle

SpecRenewals == InitInterval /\ [][NextRenewals]_vars

(***************************************************************************)
(* Properties.                                                             *)
(***************************************************************************)
RequestOps == {"lookup", "renewToken", "issueToken", "read", "write"}

\* the lease duration of a login / self-lookup response
RespLease(resp) ==
    IF "ttl" \in DOMAIN resp THEN resp.ttl ELSE resp.lease_duration

RevokeSelf(req) ==
    req.path = <<"/v1", "auth/token/revoke-self">> /\ req.method = "POST"

\* C1: on a session on which login() has never been called, a call of
\* lookup, renewToken, issueToken, read or write fails with the
\* unauthenticated error and hands no request to fetch(), whatever the
\* credential kind; no such call is ever left awaiting a response.
C1_UnauthenticatedBeforeLogin ==
    ~hist.loginCalled =>
        /\ fg.op \notin RequestOps
        /\ step.op \in RequestOps =>
              /\ step.kind = "call" /\ step.outcome = "Unauthenticated"
              /\ step.sent = <<>>
              /\ fg = Idle

C1_Witness ==
    /\ ~hist.loginCalled
    /\ options.authType = "approle"
    /\ step.kind = "call" /\ step.op = "write"
    /\ step.outcome = "Unauthenticated"

\* a login() call completes successfully in this step
LoginSucceeds ==
    /\ fg.op = "login"
    /\ step'.kind = "settle" /\ step'.op = "login" /\ step'.outcome = "ok"

\* C2: when login() succeeds on a session with no pending timer, a timer is
\* pending afterwards iff the response is renewable, its accessor is not
\* empty, its lease duration is > 0 and enableRenewalTimer is not false; a
\* token-kind login whose self-lookup says renewable = false arms no timer.
C2_LoginArmsIff ==
    [][LoginSucceeds =>
        /\ timers = EmptyBag =>
              (timers' /= EmptyBag <=>
                  /\ step'.resp.renewable
                  /\ step'.resp.accessor /= ""
                  /\ RespLease(step'.resp) > 0
                  /\ options.enableRenewalTimer /= "false")
        /\ options.authType = "token" /\ ~step'.resp.renewable =>
              timers' = timers]_vars

C2_Witness ==
    /\ step.kind = "settle" /\ step.op = "login" /\ step.outcome = "ok"
    /\ options.authType = "token"
    /\ step.resp.renewable /\ step.resp.ttl > 0
    /\ BagCardinality(timers) = 1 /\ inflight = EmptyBag

\* C3: a timer armed with lease duration L has the delay
\* max(L - ceil(L/5), 1) seconds, capped at 2147483647 ms, where ceil(L/5)
\* is the least c with 5c >= L; L = 3600 gives 2880 s and L = 1 gives 1 s.
C3_Delay ==
    \A t \in BagToSet(timers) :
        LET L == t.lease
            c == CHOOSE n \in {L \div 5, L \div 5 + 1} : 5 * n >= L /\ 5 * (n - 1) < L
            seconds == IF L - c > 1 THEN L - c ELSE 1
        IN  /\ t.delay = IF seconds >= 2147484 THEN 2147483647 ELSE seconds * 1000
            /\ L = 3600 => t.delay = 2880 * 1000
            /\ L = 1 => t.delay = 1000

C3_Witness ==
    \E t, u \in BagToSet(timers) :
        /\ t.lease = 3600 /\ t.delay = 2880000
        /\ u.lease = 2684355 /\ u.delay = 2147483647

\* C4 (as claimed): once a background renewal has failed with HTTP 403 and
\* login() has not been called since, no step of the scheduler arms a timer
\* or sends a renewal request.
C4_StopsAfter403 ==
    hist.fatal =>
        ~(step.kind \in {"fire", "renewed"}
          /\ (step.armed /= NotArmed \/ step.sent /= <<>>))

\* C5 (as claimed): a background renewal failing with anything other than
\* HTTP 403 re-arms the timer with the lease duration the failed cycle had
\* been armed with.
C5_RearmsWithPreviousLease ==
    (/\ step.kind = "renewed"
     /\ step.outcome /= "ok"
     /\ ~(step.outcome = "HTTPError" /\ step.status = 403))
    => step.armed = step.cycle

\* C6: when a background renewal succeeds with (accessor A', lease duration
\* L'), the session's accessor is A' and the timer of renewTimerHandle is
\* armed with L' and the delay of L'.
C6_RenewalSuccess ==
    (step.kind = "renewed" /\ step.outcome = "ok") =>
        /\ currentTokenAccessor = step.resp.accessor
        /\ step.armed = {step.resp.lease_duration}
        /\ \E t \in BagToSet(timers) :
              /\ t.current
              /\ t.lease = step.resp.lease_duration
              /\ t.delay = renewInterval(step.resp.lease_duration)

C6_Witness ==
    /\ step.kind = "renewed" /\ step.outcome = "ok"
    /\ step.cycle = {3600} /\ step.resp.lease_duration = 2
    /\ currentLeaseDuration = 3600
    /\ step.resp.accessor = "acc2"

\* C7 (as claimed): once logout() has been called while no renewal was in
\* flight, and until login() is called again, no renewal timer is pending
\* and no timer fires.
C7_LogoutCancels ==
    hist.loggedOut = "quiet" =>
        timers = EmptyBag /\ step.kind /= "fire"

\* C8 (as claimed): the settling of a renewal that was in flight when
\* logout() was called does not arm a timer.
C8_NoRearmAfterLogout ==
    ~(/\ hist.loggedOut = "midflight"
      /\ step.kind = "renewed"
      /\ step.armed /= NotArmed)

\* C9 (as claimed): at most one renewal task, pending timer or renewal in
\* flight, exists per session.
C9_OneTask == Tasks <= 1

\* C10: logout() on a logged-in session hands fetch() exactly one request,
\* a POST of auth/token/revoke-self, when logoutRevoke is set and the token
\* of the last login is of type service, and no request otherwise; the rest
\* of logout() sends nothing.
C10_RevokeOnLogout ==
    [][/\ (hist.loggedIn /\ fg = Idle /\ step'.kind = "call" /\ step'.op = "logout") =>
            IF options.logoutRevoke /\ hist.tokenType = "service"
            THEN Len(step'.sent) = 1 /\ RevokeSelf(step'.sent[1])
            ELSE step'.sent = <<>>
       /\ (fg.op = "logout" /\ step'.kind = "settle") => step'.sent = <<>>]_vars

C10_Witness ==
    /\ step.kind = "call" /\ step.op = "logout"
    /\ Len(step.sent) = 1 /\ RevokeSelf(step.sent[1])
    /\ hist.tokenType = "service" /\ options.logoutRevoke

\* C11 (as claimed): the token is absent before the first login() and while
\* the session is logged in it is present; once logout() has completed, and
\* until login() is called again, the token is absent and lookup,
\* renewToken, issueToken, read and write fail with the unauthenticated
\* error without handing a request to fetch().
C11_TokenAbsentAfterLogout ==
    /\ ~hist.loginCalled => currentToken = Undefined
    /\ hist.loggedIn => currentToken /= Undefined
    /\ (hist.loggedOut /= "no" /\ fg.op /= "logout") =>
          /\ currentToken = Undefined
          /\ step.op \in RequestOps =>
                /\ fg = Idle
                /\ step.kind = "call" /\ step.outcome = "Unauthenticated"
                /\ step.sent = <<>>

\* C12 (as claimed): when the revoke-self request of logout() fails,
\* logout() completes normally unless revokeHardFail is set, and then it
\* fails with the error of the request; either way no renewal timer is
\* pending when logout() completes.
C12_RevokeFailure ==
    [][(fg.op = "logout" /\ step'.kind = "settle" /\ step'.op = "logout"
        /\ step'.status /= 204) =>
          /\ step'.outcome = "ok" <=> ~fg.hardFail
          /\ step'.outcome /= "ok" =>
                step'.outcome \in {"FetchRejected", "HTTPError", "SyntaxError"}
          /\ timers' = EmptyBag]_vars

\* C13 (as claimed): logout() on a session on which login() has never been
\* called hands no request to fetch(), raises no error and leaves the
\* session state as constructed, whatever the credential kind, logoutRevoke
\* and revokeHardFail.
C13_LogoutBeforeLogin ==
    (~hist.loginCalled /\ step.kind = "call" /\ step.op = "logout") =>
        /\ step.outcome = "ok"
        /\ step.sent = <<>>
        /\ fg = Idle
        /\ currentToken = Undefined /\ currentTokenAccessor = Undefined
        /\ currentLeaseDuration = 0 /\ renewTimerHandle = 0 /\ canRevoke

\* C14 (as claimed): when the request of login() fails (rejected fetch,
\* HTTP error, body that does not parse or validate), for either credential
\* kind, the token, the accessor and canRevoke are what they were when
\* login() was called and the lease duration is 0.
C14_FailedLoginKeepsSession ==
    [][(fg.op = "login" /\ step'.kind = "settle" /\ step'.op = "login"
        /\ step'.outcome /= "ok") =>
          /\ currentToken' = fg.token
          /\ currentTokenAccessor' = currentTokenAccessor
          /\ canRevoke' = canRevoke
          /\ currentLeaseDuration' = 0]_vars

AbortableOps ==
    {"login", "approleLogin", "lookup", "renewToken", "issueToken", "read",
     "write", "unwrap"}

\* C15 (as claimed): a call of login, approleLogin, lookup, renewToken,
\* issueToken, read, write or unwrap made with an already aborted signal
\* fails with the abort reason, hands no request to fetch() and leaves the
\* session state as it was.
C15_AbortedCall ==
    [][(fg = Idle /\ step'.kind = "call" /\ step'.op \in AbortableOps
        /\ step'.signal = "aborted") =>
          /\ step'.outcome = "AbortError"
          /\ step'.sent = <<>>
          /\ fg' = Idle
          /\ session' = session]_vars

Endpoint(req) == req.path[2]

\* C16: when the wrapping lookup of unwrap() is answered with a
\* creation_path that is not the very string given as expected creation
\* path, unwrap() fails with the creation-path mismatch and ends without a
\* request to sys/wrapping/unwrap; when it is that string, unwrap() goes on
\* to the unwrap request.
C16_CreationPathMismatch ==
    [][(fg.op = "unwrapLookup" /\ step'.op = "unwrap" /\ step'.status = 200
        /\ step'.resp \in [creation_path : CreationPaths]) =>
          IF step'.resp.creation_path /= fg.expected
          THEN /\ step'.outcome = "CreationPathMismatch"
               /\ step'.sent = <<>>
               /\ fg' = Idle
          ELSE /\ step'.outcome = "pending"
               /\ fg'.op = "unwrap"]_vars

C16_Witness ==
    /\ step.op = "unwrap" /\ step.outcome = "CreationPathMismatch"
    /\ step.resp.creation_path = "auth/token/create/ops"
    /\ fg = Idle

\* C17: an unwrap() call hands fetch() a lookup request first exactly when
\* an expected creation path is given, and otherwise the unwrap request;
\* after the lookup it sends the one unwrap request only if the lookup
\* succeeded, and ends without a request otherwise; after the unwrap
\* request it sends nothing: at most one request of each kind per call.
C17_UnwrapRequests ==
    [][/\ (fg = Idle /\ step'.kind = "call" /\ step'.op = "unwrap"
           /\ step'.sent /= <<>>) =>
             /\ Len(step'.sent) = 1
             /\ fg'.requests = <<Endpoint(step'.sent[1])>>
             /\ Endpoint(step'.sent[1]) =
                   IF fg'.expected \in {Undefined, ""}
                   THEN "sys/wrapping/unwrap" ELSE "sys/wrapping/lookup"
       /\ (fg.op = "unwrapLookup" /\ step'.op = "unwrap") =>
             /\ fg.requests = <<"sys/wrapping/lookup">>
             /\ step'.status /= 200 => step'.sent = <<>>
             /\ IF step'.sent /= <<>>
                THEN /\ Len(step'.sent) = 1
                     /\ Endpoint(step'.sent[1]) = "sys/wrapping/unwrap"
                     /\ fg'.requests = <<"sys/wrapping/lookup", "sys/wrapping/unwrap">>
                ELSE fg' = Idle
       /\ (fg.op = "unwrap" /\ step'.op = "unwrap") =>
             /\ fg.requests \in {<<"sys/wrapping/unwrap">>,
                                 <<"sys/wrapping/lookup", "sys/wrapping/unwrap">>}
             /\ step'.sent = <<>>
             /\ fg' = Idle]_vars

C17_Witness ==
    /\ fg.op = "unwrap"
    /\ fg.requests = <<"sys/wrapping/lookup", "sys/wrapping/unwrap">>
    /\ fg.expected = "auth/token/create"

\* C18 (as claimed): on a session on which login() has never been called,
\* unwrap() fails with the unauthenticated error and hands no request to
\* fetch().
C18_UnwrapUnauthenticated ==
    ~hist.loginCalled =>
        /\ fg.op \notin {"unwrapLookup", "unwrap"}
        /\ step.op = "unwrap" =>
              /\ step.kind = "call" /\ step.outcome = "Unauthenticated"
              /\ step.sent = <<>>

\* C20 (as claimed): on a logged-in session, a write() made without a
\* contract whose request is answered succeeds iff the status is 204, and
\* with any other status, 200 included, it fails with an HTTPError carrying
\* that status.
C20_NoBodyOnly204 ==
    [][(hist.loggedIn /\ fg.op = "write" /\ fg.contract = "undefined"
        /\ step'.kind = "settle"
        /\ step'.op = "write" /\ step'.outcome /= "FetchRejected") =>
          /\ step'.outcome = "ok" <=> step'.status = 204
          /\ step'.outcome /= "ok" =>
                /\ step'.outcome = "HTTPError"
                /\ step'.status \in Statuses \ {204}]_vars

\* a doVaultFetch with a contract settles on a response of the server
ContractAnswered ==
    /\ fg.op = "doVaultFetch" /\ fg.contract /= "undefined"
    /\ step'.kind = "settle" /\ step'.op = "doVaultFetch"
    /\ step'.resp.response.kind = "response"

\* C21 (as claimed): when a request made with a contract is answered with a
\* status outside 200..299, the call fails with an HTTPError whose status
\* is the status of the response and whose path is the path of the request
\* URL, /v1/<endpoint>, without the origin.
C21_HTTPErrorStatusPath ==
    [][(ContractAnswered /\ ~ResponseOk(step'.resp.response.status)) =>
          /\ step'.outcome = "HTTPError"
          /\ step'.status = step'.resp.response.status
          /\ step'.resp.value.path = <<"/v1", fg.endpoint>>]_vars

\* C22: when a request made with a contract is answered with a status in
\* 200..299 and a body outside the contract, the call fails, with the
\* validation error when the body is JSON, and never with an HTTPError; an
\* HTTPError is raised only on a status outside 200..299.
C22_ValidationNotHTTPError ==
    [][ContractAnswered =>
          /\ (/\ ResponseOk(step'.resp.response.status)
              /\ step'.resp.response.body \notin Contract(fg.contract)) =>
                /\ step'.outcome \in {"ValidationError", "SyntaxError"}
                /\ step'.resp.response.body = Invalid =>
                      step'.outcome = "ValidationError"
          /\ step'.outcome = "HTTPError" =>
                ~ResponseOk(step'.resp.response.status)]_vars

C22_Witness ==
    /\ step.kind = "settle" /\ step.op = "doVaultFetch"
    /\ step.outcome = "ValidationError"
    /\ step.resp.response.status = 200 /\ step.resp.response.body = Invalid

\* C23: with a credential kind other than token and approle, login() fails
\* with the unsupported-kind error without handing a request to fetch();
\* no login is ever awaiting a response, no timer is ever armed, and token
\* and accessor stay absent as constructed.
C23_UnsupportedKind ==
    options.authType \notin {"token", "approle"} =>
        /\ fg.op /= "login"
        /\ step.op = "login" =>
              /\ step.kind = "call" /\ step.outcome = "UnsupportedAuthType"
              /\ step.sent = <<>>
        /\ timers = EmptyBag /\ renewTimerHandle = 0
        /\ currentToken = Undefined /\ currentTokenAccessor = Undefined

C23_Witness ==
    /\ options.authType = "userpass"
    /\ step.kind = "call" /\ step.op = "login"
    /\ step.outcome = "UnsupportedAuthType"
    /\ hist.loginCalled

\* C24: right after a successful login(), canRevoke is true iff the token
\* type of the AppRole login response, or of the self-lookup of a token
\* login, is "service".
C24_RevocableIffService ==
    (step.kind = "settle" /\ step.op = "login" /\ step.outcome = "ok") =>
        (canRevoke <=> RespType(step.resp) = "service")

C24_Witness ==
    /\ step.kind = "settle" /\ step.op = "login" /\ step.outcome = "ok"
    /\ options.authType = "approle"
    /\ step.resp.token_type = "batch" /\ ~canRevoke

\* a step of a background renewal or of a renewToken() call was just taken
RenewalStep ==
    step'.kind \in {"fire", "renewed"} \/ step'.op = "renewToken"

\* C25: no step of a renewal changes the session token: neither a timer
\* firing, nor the settling of a background renewal (successful or failed),
\* nor a renewToken() call or its settling.
C25_RenewalsKeepToken ==
    [][RenewalStep => currentToken' = currentToken]_vars

C25_Witness ==
    /\ step.kind = "renewed" /\ step.outcome = "ok"
    /\ options.authType = "token"
    /\ currentToken = ConfiguredToken
    /\ step.resp.client_token /= currentToken

\* C26 (as claimed): right after a successful login and right after a
\* successful background renewal, currentLeaseDuration is the lease duration
\* of the response.
C26_StoredLeaseIsLast ==
    /\ (step.kind = "settle" /\ step.op = "login" /\ step.outcome = "ok")
          => currentLeaseDuration = RespLease(step.resp)
    /\ (step.kind = "renewed" /\ step.outcome = "ok")
          => currentLeaseDuration = step.resp.lease_duration

\* C27: a failed background renewal arms no timer iff the failure is an
\* HTTPError with status 403; after any other failure (another status, a
\* rejected fetch, a body that does not parse or validate) the timer of
\* renewTimerHandle is a newly armed one.
C27_StopsOnlyOn403 ==
    (step.kind = "renewed" /\ step.outcome /= "ok") =>
        /\ step.armed = NotArmed
              <=> (step.outcome = "HTTPError" /\ step.status = 403)
        /\ step.armed /= NotArmed =>
              \E t \in BagToSet(timers) : t.current /\ step.armed = {t.lease}

C27_Witness ==
    /\ step.kind = "renewed"
    /\ step.outcome = "HTTPError" /\ step.status = 500
    /\ step.armed /= NotArmed
    /\ BagCardinality(timers) = 1 /\ inflight = EmptyBag

\* logout() was called since the last login(), or a renewal failed with 403
Stopped == hist.loggedOut /= "no" \/ hist.fatal

\* C28: unless logout() is called or a renewal fails with 403, a pending
\* timer leads to a renewal attempt in flight and a renewal attempt in
\* flight leads to a pending timer again.
C28_SchedulerLive ==
    /\ (timers /= EmptyBag) ~> (inflight /= EmptyBag \/ Stopped)
    /\ (inflight /= EmptyBag) ~> (timers /= EmptyBag \/ Stopped)

C28_Witness ==
    /\ step.kind = "renewed" /\ step.outcome = "FetchRejected"
    /\ BagCardinality(timers) = 1 /\ inflight = EmptyBag
    /\ ~Stopped

\* C29 (as claimed): every pending timer was armed with a lease duration
\* greater than 0.
C29_PendingLeasePositive ==
    \A t \in BagToSet(timers) : t.lease > 0

\* C30: a timer armed with a lease duration L >= 2 has a delay of at least
\* 1 s and at most L - ceil(L/5) s, hence less than L s; of two pending
\* timers the one with the larger lease duration has no smaller delay; no
\* delay exceeds 2147483647 ms.
C30_DelayBounds ==
    /\ \A t \in BagToSet(timers) :
          LET L == t.lease
              c == CHOOSE n \in {L \div 5, L \div 5 + 1} :
                       5 * n >= L /\ 5 * (n - 1) < L
          IN  /\ t.delay <= 2147483647
              /\ L >= 2 =>
                    /\ t.delay >= 1000
                    /\ t.delay <= 2147483 * 1000 => t.delay <= (L - c) * 1000
                    /\ t.delay \div 1000 <= L - c
                    /\ t.delay \div 1000 < L
    /\ \A t, u \in BagToSet(timers) :
          t.lease <= u.lease => t.delay <= u.delay

C30_Witness ==
    \E t, u \in BagToSet(timers) :
        /\ t.lease = 2 /\ t.delay = 1000
        /\ u.lease = 3000000 /\ u.delay = 2147483647

\* a step of lookup, renewToken, issueToken, read, write or unwrap was just
\* taken
ForegroundStep == step'.op \in RequestOps \cup {"unwrap"}

\* C31: no step of lookup, renewToken, issueToken, read, write or unwrap,
\* successful or failed, changes token, accessor, lease duration,
\* canRevoke, the timer handle or the pending timers.
C31_ForegroundKeepsSession ==
    [][ForegroundStep => UNCHANGED <<session, timers>>]_vars

C31_Witness ==
    /\ step.kind = "settle" /\ step.op = "issueToken" /\ step.outcome = "ok"
    /\ currentToken = ConfiguredToken
    /\ timers /= EmptyBag

\* C34: right after a successful login() the session token is the
\* configured token (token kind) or the client_token of the response
\* (AppRole kind), the accessor is the accessor of the response, and
\* currentLeaseDuration is its ttl (self-lookup) or lease_duration (AppRole
\* login).
C34_LoginStoresResponse ==
    (step.kind = "settle" /\ step.op = "login" /\ step.outcome = "ok") =>
        /\ currentToken = IF options.authType = "token" THEN ConfiguredToken
                          ELSE step.resp.client_token
        /\ currentTokenAccessor = step.resp.accessor
        /\ currentLeaseDuration = IF options.authType = "token"
                                  THEN step.resp.ttl
                                  ELSE step.resp.lease_duration

C34_Witness ==
    /\ step.kind = "settle" /\ step.op = "login" /\ step.outcome = "ok"
    /\ options.authType = "approle"
    /\ currentToken = step.resp.client_token
    /\ currentTokenAccessor = "acc2" /\ currentLeaseDuration = 3600

\* C35: a request to the AppRole login endpoint carries no token, whatever
\* token the session holds; a request of unwrap() carries the wrapping
\* token, which is not the session token; every other request carries the
\* session token.
C35_RequestTokens ==
    \A i \in DOMAIN step.sent :
        LET r == step.sent[i]
        IN  IF Endpoint(r) = "auth/approle/login" THEN r.token = ""
            ELSE IF step.op = "unwrap"
            THEN r.token = fg.wrappingToken /\ r.token /= currentToken
            ELSE r.token = currentToken /\ r.token /= ""

C35_Witness ==
    /\ step.kind = "call" /\ step.op = "login" /\ step.sent /= <<>>
    /\ Endpoint(step.sent[1]) = "auth/approle/login"
    /\ step.sent[1].token = ""
    /\ currentToken \in ClientTokens

\* C38: approleLogin() on a client whose credential kind is not "approle"
\* fails at once with the wrong-kind error, hands no request to fetch() and
\* leaves the session and its timers as they are.
C38_ApproleLoginWrongKind ==
    [][(step'.op = "approleLogin" /\ options.authType /= "approle") =>
          /\ step'.kind = "call" /\ step'.outcome = "WrongAuthType"
          /\ step'.sent = <<>>
          /\ fg' = Idle
          /\ UNCHANGED <<session, timers, inflight>>]_vars

C38_Witness ==
    /\ step.op = "approleLogin" /\ step.outcome = "WrongAuthType"
    /\ options.authType = "token" /\ currentToken = ConfiguredToken

\* C36 (as claimed): a request carries a serialized body and the
\* Content-Type header iff a body was supplied and the method is not GET;
\* a GET request carries neither.
C36_BodyIffSupplied ==
    fg.op = "doVaultFetch" =>
        /\ (fg.request.body /\ fg.request.contentType)
              <=> (fg.body /= Undefined /\ fg.request.method /= "GET")
        /\ fg.request.method = "GET" =>
              ~fg.request.body /\ ~fg.request.contentType

\* C37: disposing the client does what logout() without options does: it
\* cancels the timer of renewTimerHandle, sends the revoke-self request
\* exactly when logoutRevoke is set, the token is revocable and present,
\* leaves the session fields alone, and never fails, whatever the answer to
\* the revoke-self request.
C37_DisposeIsLogout ==
    [][/\ (step'.op = "asyncDispose" /\ step'.kind = "call") =>
             /\ renewTimerHandle /= 0 =>
                   \A t \in BagToSet(timers') : ~t.current
             /\ \A t \in BagToSet(timers) :
                   ~t.current => CopiesIn(t, timers') = CopiesIn(t, timers)
             /\ step'.sent /= <<>>
                   <=> (options.logoutRevoke /\ canRevoke
                        /\ currentToken /= Undefined)
             /\ step'.sent /= <<>> =>
                   /\ Endpoint(step'.sent[1]) = "auth/token/revoke-self"
                   /\ step'.outcome = "pending"
             /\ step'.sent = <<>> => step'.outcome = "ok"
             /\ UNCHANGED session
       /\ (step'.op = "asyncDispose" /\ step'.kind = "settle") =>
             /\ step'.outcome = "ok"
             /\ UNCHANGED <<session, timers>>]_vars

C37_Witness ==
    /\ step.op = "asyncDispose" /\ step.kind = "settle"
    /\ step.status = 500 /\ step.outcome = "ok"
    /\ timers = EmptyBag /\ renewTimerHandle /= 0

\* C32 (as claimed): while logout() awaits its revoke-self request, no
\* renewal timer fires.
C32_NoFireDuringRevoke ==
    ~(fg.op = "logout" /\ step.kind = "fire")

\* C33: a background renewal failing with 403 leaves token and accessor as
\* they are and arms no timer; after it renewToken() still sends the
\* session token; and a successful login() called after it arms the timer
\* of renewTimerHandle whenever the response is renewable with an accessor
\* and a lease duration > 0 and the timer is not disabled.
C33_RecoversAfter403 ==
    [][/\ (step'.kind = "renewed" /\ step'.outcome = "HTTPError"
           /\ step'.status = 403) =>
             /\ hist'.fatal
             /\ step'.armed = NotArmed
             /\ currentToken' = currentToken
             /\ currentTokenAccessor' = currentTokenAccessor
       /\ (hist.fatal /\ step'.kind = "call" /\ step'.op = "renewToken"
           /\ step'.signal = Undefined) =>
             /\ step'.outcome = "pending"
             /\ Len(step'.sent) = 1
             /\ step'.sent[1].token = currentToken
             /\ currentToken /= Undefined
       /\ (step'.kind = "settle" /\ step'.op = "login" /\ step'.outcome = "ok"
           /\ step'.afterStop) =>
             LET lease == RespLease(step'.resp)
             IN  (/\ step'.resp.renewable /\ step'.resp.accessor /= ""
                  /\ lease > 0 /\ options.enableRenewalTimer /= "false") =>
                    /\ step'.armed = {lease}
                    /\ \E t \in BagToSet(timers') : t.current /\ t.lease = lease]_vars

C33_Witness ==
    /\ step.kind = "settle" /\ step.op = "login" /\ step.outcome = "ok"
    /\ step.afterStop
    /\ step.armed /= NotArmed
    /\ BagCardinality(timers) = 1 /\ inflight = EmptyBag

====
